---------------------------- MODULE Spec2Model ----------------------------
(***************************************************************************)
(* Model of Direct_Root_Leaf_Script.py: the conversion of a graph document *)
(* (a list of edge records under the key `links`) into a table with one    *)
(* row per (root-to-leaf path, direct root-to-leaf edge).                  *)
(*                                                                         *)
(* Node identifiers (Python strings) are modelled by naturals, ordered as  *)
(* Python orders the strings they stand for; the empty string '' is the    *)
(* smallest.  A Python dict is a function whose DOMAIN is its key set, so  *)
(* that a missing key is a key outside the DOMAIN.  An insertion-ordered   *)
(* mapping of purposes is a sequence of [cat, entries] records.            *)
(***************************************************************************)
EXTENDS Integers, Sequences, FiniteSets, TLC

VARIABLES
    adj_list,   \* get_all_paths_with_purposes: the adjacency mapping passed in
    start,      \* get_all_paths_with_purposes: top-level start node
    end,        \* get_all_paths_with_purposes: end node
    call,       \* the state of the running recursion (see InitCall)
    doc,        \* process_yaml_to_organized_data: what yaml.safe_load yields
    pc,         \* process_yaml_to_organized_data: "call" before, "done" after
    root_nodes, \* its local root_nodes
    leaf_nodes, \* its local leaf_nodes
    rows,       \* its local rows, as it stood when DataFrame(rows) was built
    exc,        \* the exception raised inside its try block, or "none"
    table,      \* the DataFrame it returned, as the sequence of its rows
    raised      \* whether an exception left it

pipeline == <<doc, pc, root_nodes, leaf_nodes, rows, exc, table, raised>>

vars == <<adj_list, start, end, call, pipeline>>

---------------------------------------------------------------------------
(* Bounds of the model *)

MaxNode == 3

MaxLinks == 2

(* '' : the default of link.get('source', '') and link.get('target', '') *)
EmptyId == 0

Nodes == 1..MaxNode

Categories == {"p", "q"}

(* A YAML value keeps its Python type: purposes is a dict (its items in   *)
(* insertion order) unless the document says otherwise.                   *)
Dict(items) == [type |-> "dict", items |-> items]

NotADict == [type |-> "list", items |-> <<>>]

(* The purposes mappings an edge of the model may carry *)
PurposeChoices ==
    { Dict(<< [cat |-> "p", entries |-> <<"x">>] >>),
      Dict(<< [cat |-> "q", entries |-> <<"y">>] >>) }

---------------------------------------------------------------------------
(* Python helpers *)

(* dict.get(key, default) *)
Get(d, key, default) == IF key \in DOMAIN d THEN d[key] ELSE default

(* sep.join(strs) *)
RECURSIVE Join(_, _)
Join(strs, sep) ==
    IF Len(strs) = 0 THEN ""
    ELSE IF Len(strs) = 1 THEN strs[1]
    ELSE strs[1] \o sep \o Join(Tail(strs), sep)

(* The elements of a sequence *)
Range(s) == { s[i] : i \in DOMAIN s }

---------------------------------------------------------------------------
(* extract_purposes: the category names, comma-space joined.  Its argument *)
(* is the key list of the purposes dictionary.                            *)
extract_purposes(keys) ==
    IF Len(keys) = 0 THEN "" ELSE Join(keys, ", ")

(* One iteration of the loop of build_adjacency_list *)
AdjAdd(adj, link) ==
    LET source   == Get(link, "source", EmptyId)
        target   == Get(link, "target", EmptyId)
        purposes == Get(link, "purposes", Dict(<<>>))
        entry    == [target |-> target, purposes |-> purposes]
    IN  IF source # EmptyId /\ target # EmptyId
        THEN IF source \in DOMAIN adj
             THEN [adj EXCEPT ![source] = Append(@, entry)]
             ELSE adj @@ (source :> <<entry>>)
        ELSE adj

RECURSIVE AdjFold(_, _)
AdjFold(adj, links) ==
    IF Len(links) = 0 THEN adj
    ELSE AdjFold(AdjAdd(adj, Head(links)), Tail(links))

(* build_adjacency_list: a defaultdict(list); its keys are the sources of *)
(* the usable edges, in each list the edges keep their document order.    *)
build_adjacency_list(links) == AdjFold(<<>>, links)

SourcesOf(links) == { Get(links[i], "source", EmptyId) : i \in DOMAIN links }

TargetsOf(links) == { Get(links[i], "target", EmptyId) : i \in DOMAIN links }

find_leaf_nodes(links) == TargetsOf(links) \ SourcesOf(links)

find_root_nodes(links) == SourcesOf(links) \ TargetsOf(links)

---------------------------------------------------------------------------
(* get_all_paths_with_purposes, one step of the recursion at a time.       *)
(*                                                                         *)
(* call.stack     the active invocations, outermost first; a frame holds   *)
(*                its `start` argument (node) and the number k of edges    *)
(*                of adj_list.get(start, []) its loop has taken up, so     *)
(*                edge k is the one being traversed while a callee runs.   *)
(*                The local `path` of the innermost invocation is the      *)
(*                node of every frame in order (path = path + [start]).    *)
(* call.keys,     the one purposes_accumulated object every invocation     *)
(* call.vals      shares: its keys in insertion order, its list per key.   *)
(* call.all_paths the one all_paths list. An entry is (path, dict(...)):   *)
(*                dict() copies the key set and shares each list, so an    *)
(*                entry holds the keys it was made with and reads the      *)
(*                lists through call.vals. `edges` notes, for the claims,  *)
(*                the loop positions of the edges the path was built by.   *)
(* call.ret       "running", or what the outermost invocation returned:    *)
(*                "list" (return all_paths), "None" (the bare return of    *)
(*                the base case), "raised" (an exception left it).         *)
(***************************************************************************)

InitCall(s) ==
    [ stack     |-> << [node |-> s, k |-> 0] >>,
      keys      |-> <<>>,
      vals      |-> [c \in Categories |-> <<>>],
      all_paths |-> <<>>,
      ret       |-> "running" ]

Top(c) == c.stack[Len(c.stack)]

Pop(stack) == SubSeq(stack, 1, Len(stack) - 1)

PathOf(c) == [i \in 1..Len(c.stack) |-> c.stack[i].node]

(* adj_list.get(start, []) *)
OutEdges(adj, node) == Get(adj, node, <<>>)

(* The edge the loop of the innermost invocation takes up next *)
NextEdge(adj, c) == OutEdges(adj, Top(c).node)[Top(c).k + 1]

(* Variant of NotInPath: only the node just left is excluded *)
NotInPathLastOnly(next_node, path) == next_node # path[Len(path)]

(* if next_node not in path *)
NotInPath(next_node, path) == next_node \notin Range(path)

(* purposes_accumulated[category].extend(purposes[category]) *)
Extend(acc, item) ==
    [ keys |-> IF item.cat \in Range(acc.keys) THEN acc.keys
               ELSE Append(acc.keys, item.cat),
      vals |-> [acc.vals EXCEPT ![item.cat] = @ \o item.entries] ]

(* for category in purposes.keys(): ... *)
RECURSIVE Accumulate(_, _)
Accumulate(acc, items) ==
    IF Len(items) = 0 THEN acc
    ELSE Accumulate(Extend(acc, Head(items)), Tail(items))

(* dict(purposes_accumulated) *)
Snapshot(c) == c.keys

(* Variant of RecordStep: the path is recorded before start is added to it *)
RecordStepBeforeAppend(c) ==
    [c EXCEPT !.all_paths = Append(@, [ path  |-> Pop(PathOf(c)),
                                        keys  |-> Snapshot(c),
                                        edges |-> [i \in 1..Len(c.stack) - 1
                                                     |-> c.stack[i].k] ]),
              !.stack = Pop(@),
              !.ret = IF Len(c.stack) = 1 THEN "None" ELSE @]

(* Lines 47-49: all_paths.append((path, dict(purposes_accumulated))); return *)
RecordStep(c) ==
    [c EXCEPT !.all_paths = Append(@, [ path  |-> PathOf(c),
                                        keys  |-> Snapshot(c),
                                        edges |-> [i \in 1..Len(c.stack) - 1
                                                     |-> c.stack[i].k] ]),
              !.stack = Pop(@),
              !.ret = IF Len(c.stack) = 1 THEN "None" ELSE @]

(* Lines 51-55 for an edge whose target is not in the path *)
TraverseStep(adj, c) ==
    LET e   == NextEdge(adj, c)
        n   == Len(c.stack)
        acc == Accumulate([keys |-> c.keys, vals |-> c.vals], e.purposes.items)
    IN  IF e.purposes.type # "dict"
        THEN [c EXCEPT !.stack = <<>>, !.ret = "raised"]
        ELSE [c EXCEPT !.keys = acc.keys,
                       !.vals = acc.vals,
                       !.stack = Append([@ EXCEPT ![n].k = @ + 1],
                                        [node |-> e.target, k |-> 0])]

(* Lines 51-52 for an edge whose target is in the path *)
SkipStep(c) ==
    [c EXCEPT !.stack[Len(c.stack)].k = @ + 1]

(* Variant of ReturnStep: a bare return at the end of the function *)
ReturnStepBare(c) ==
    [c EXCEPT !.stack = Pop(@),
              !.ret = IF Len(c.stack) = 1 THEN "None" ELSE @]

(* Line 57: return all_paths *)
ReturnStep(c) ==
    [c EXCEPT !.stack = Pop(@),
              !.ret = IF Len(c.stack) = 1 THEN "list" ELSE @]

Running(c) == c.ret = "running"

AtBase(e, c) == Running(c) /\ Top(c).node = e

InLoop(adj, e, c) ==
    /\ Running(c)
    /\ Top(c).node # e
    /\ Top(c).k < Len(OutEdges(adj, Top(c).node))

LoopOver(adj, e, c) ==
    /\ Running(c)
    /\ Top(c).node # e
    /\ Top(c).k = Len(OutEdges(adj, Top(c).node))

StepCall(adj, e, c) ==
    IF AtBase(e, c) THEN RecordStep(c)
    ELSE IF LoopOver(adj, e, c) THEN ReturnStep(c)
    ELSE IF NotInPath(NextEdge(adj, c).target, PathOf(c)) THEN TraverseStep(adj, c)
    ELSE SkipStep(c)

RECURSIVE RunCall(_, _, _)
RunCall(adj, e, c) ==
    IF Running(c) THEN RunCall(adj, e, StepCall(adj, e, c)) ELSE c

(* The whole call get_all_paths_with_purposes(adj_list, start, end) *)
get_all_paths_with_purposes(adj, s, e) == RunCall(adj, e, InitCall(s))

(* What an entry of all_paths reads as its purposes dictionary *)
PurposesOf(c, entry) ==
    [i \in 1..Len(entry.keys) |->
        [cat |-> entry.keys[i], entries |-> c.vals[entry.keys[i]]]]

---------------------------------------------------------------------------
(* A direct call of get_all_paths_with_purposes on the adjacency mapping   *)
(* of some edge list, from any start to any end.                           *)

PathLinks ==
    { [source |-> s, target |-> t] : s \in Nodes, t \in Nodes }
    \cup
    { [source |-> s, target |-> t, purposes |-> p] :
        s \in Nodes, t \in Nodes, p \in PurposeChoices }

NoDoc == [type |-> "none"]

InitPaths ==
    /\ \E n \in 0..MaxLinks : \E links \in [1..n -> PathLinks] :
          adj_list = build_adjacency_list(links)
    /\ start \in Nodes
    /\ end \in Nodes
    /\ call = InitCall(start)
    /\ doc = NoDoc
    /\ pc = "idle"
    /\ root_nodes = {}
    /\ leaf_nodes = {}
    /\ rows = <<>>
    /\ exc = "none"
    /\ table = <<>>
    /\ raised = FALSE

Record ==
    /\ AtBase(end, call)
    /\ call' = RecordStep(call)
    /\ UNCHANGED <<adj_list, start, end, pipeline>>

Traverse ==
    /\ InLoop(adj_list, end, call)
    /\ NotInPath(NextEdge(adj_list, call).target, PathOf(call))
    /\ call' = TraverseStep(adj_list, call)
    /\ UNCHANGED <<adj_list, start, end, pipeline>>

Skip ==
    /\ InLoop(adj_list, end, call)
    /\ ~NotInPath(NextEdge(adj_list, call).target, PathOf(call))
    /\ call' = SkipStep(call)
    /\ UNCHANGED <<adj_list, start, end, pipeline>>

Return ==
    /\ LoopOver(adj_list, end, call)
    /\ call' = ReturnStep(call)
    /\ UNCHANGED <<adj_list, start, end, pipeline>>

NextPaths == Record \/ Traverse \/ Skip \/ Return

(* The interpreter runs the call to its end *)
SpecPathsFair == InitPaths /\ [][NextPaths]_vars /\ WF_vars(NextPaths)

SpecPaths == InitPaths /\ [][NextPaths]_vars

---------------------------------------------------------------------------
(* process_yaml_to_organized_data                                          *)

(* The text lines an edge of the model may carry *)
TextChoices == { <<"a", "b">> }

(* Edge records with a source and a target: no metadata, purposes only,   *)
(* text only, or both                                                      *)
WellFormedLinks ==
    { [source |-> s, target |-> t] : s \in Nodes, t \in Nodes }
    \cup
    { [source |-> s, target |-> t,
       purposes |-> Dict(<< [cat |-> "p", entries |-> <<"x">>] >>)] :
        s \in Nodes, t \in Nodes }
    \cup
    { [source |-> s, target |-> t, text |-> x] :
        s \in Nodes, t \in Nodes, x \in TextChoices }
    \cup
    { [source |-> s, target |-> t,
       purposes |-> Dict(<< [cat |-> "q", entries |-> <<"y">>] >>),
       text |-> x] :
        s \in Nodes, t \in Nodes, x \in TextChoices }

(* Edge records with an empty or absent endpoint, or purposes that is no   *)
(* mapping, beside plain ones                                              *)
OddLinks ==
    { [source |-> EmptyId, target |-> t] : t \in Nodes }
    \cup { [source |-> s, target |-> EmptyId] : s \in Nodes }
    \cup { [target |-> t] : t \in Nodes }
    \cup { [source |-> s] : s \in Nodes }
    \cup { [source |-> s, target |-> t, purposes |-> NotADict] :
             s \in Nodes, t \in Nodes }
    \cup { [source |-> s, target |-> t] : s \in Nodes, t \in Nodes }
    \cup { [source |-> s, target |-> t, text |-> x] :
             s \in Nodes, t \in Nodes, x \in TextChoices }

(* What yaml.safe_load(yaml_content) does: raise yaml.YAMLError, or yield  *)
(* a value that is no dict, a dict without 'links', a dict whose 'links'   *)
(* is no list, or a dict whose 'links' is a list of edge records.          *)
Unparsable == [type |-> "unparsable"]

Scalar == [type |-> "str"]

DictDoc(items) == [type |-> "dict", items |-> items]

ListOf(items) == [type |-> "list", items |-> items]

(* Variant of DirectEdge: the target of the edge is not compared *)
DirectEdgeSourceOnly(link, root, leaf) ==
    IF "source" \notin DOMAIN link THEN "KeyError"
    ELSE IF link["source"] = root THEN "True" ELSE "False"

(* Line 82: link['source'] == root and link['target'] == leaf; "KeyError"  *)
(* when a key the expression reads is missing.                            *)
DirectEdge(link, root, leaf) ==
    IF "source" \notin DOMAIN link THEN "KeyError"
    ELSE IF link["source"] # root THEN "False"
    ELSE IF "target" \notin DOMAIN link THEN "KeyError"
    ELSE IF link["target"] = leaf THEN "True" ELSE "False"

(* Lines 83-89: the row of one (path, direct edge) *)
RowOf(link, root, leaf, keys) ==
    [ data_type |-> leaf,
      collector |-> root,
      purpose   |-> extract_purposes(keys),
      text      |-> Join(Get(link, "text", <<>>), "\n") ]

(* The loops below thread st = [rows, exc]: the list `rows` and the        *)
(* exception that ended the try block ("none" while it runs).             *)

(* Lines 81-89: for link in links *)
RECURSIVE LinkLoop(_, _, _, _, _)
LinkLoop(links, root, leaf, keys, st) ==
    IF st.exc # "none" \/ Len(links) = 0 THEN st
    ELSE LET m == DirectEdge(Head(links), root, leaf)
         IN  LinkLoop(Tail(links), root, leaf, keys,
                CASE m = "KeyError" -> [st EXCEPT !.exc = "KeyError"]
                  [] m = "True" ->
                       [st EXCEPT !.rows =
                           Append(@, RowOf(Head(links), root, leaf, keys))]
                  [] OTHER -> st)

(* Lines 79-89: for path, inherited_purposes in paths_with_purposes *)
RECURSIVE PathLoop(_, _, _, _, _)
PathLoop(paths, links, root, leaf, st) ==
    IF st.exc # "none" \/ Len(paths) = 0 THEN st
    ELSE PathLoop(Tail(paths), links, root, leaf,
                  LinkLoop(links, root, leaf, Head(paths).keys, st))

(* Lines 77-89: the body of the loop over leaves, for one (root, leaf) *)
PairBody(adj, links, root, leaf, st) ==
    LET c == get_all_paths_with_purposes(adj, root, leaf)
    IN  CASE c.ret = "raised" -> [st EXCEPT !.exc = "AttributeError"]
          [] c.ret = "None"   -> [st EXCEPT !.exc = "TypeError"]
          [] OTHER            -> PathLoop(c.all_paths, links, root, leaf, st)

(* Lines 76-89: for leaf in leaf_nodes, in the order the set yields them *)
RECURSIVE LeafLoop(_, _, _, _, _)
LeafLoop(adj, links, root, leaves, st) ==
    IF st.exc # "none" \/ Len(leaves) = 0 THEN st
    ELSE LeafLoop(adj, links, root, Tail(leaves),
                  PairBody(adj, links, root, Head(leaves), st))

(* Lines 75-89: for root in root_nodes, in the order the set yields them *)
RECURSIVE RootLoop(_, _, _, _, _)
RootLoop(adj, links, roots, leaves, st) ==
    IF st.exc # "none" \/ Len(roots) = 0 THEN st
    ELSE RootLoop(adj, links, Tail(roots), leaves,
                  LeafLoop(adj, links, Head(roots), leaves, st))

(* The sort key of sort_values(['data_type', 'collector']) *)
KeyLE(a, b) ==
    \/ a.data_type < b.data_type
    \/ a.data_type = b.data_type /\ a.collector <= b.collector

(* sort_values on several columns is a stable sort: a row goes behind the  *)
(* rows already placed whose key is not greater.                           *)
RECURSIVE InsertRow(_, _)
InsertRow(sorted, r) ==
    IF Len(sorted) = 0 THEN <<r>>
    ELSE IF KeyLE(Head(sorted), r)
         THEN <<Head(sorted)>> \o InsertRow(Tail(sorted), r)
         ELSE <<r>> \o sorted

RECURSIVE SortFrom(_, _)
SortFrom(sorted, rest) ==
    IF Len(rest) = 0 THEN sorted
    ELSE SortFrom(InsertRow(sorted, Head(rest)), Tail(rest))

(* Variant of sort_values: the rows stay in the order they were emitted *)
sort_values_skipped(df) == df

(* df.sort_values(['data_type', 'collector']).reset_index(drop=True) *)
sort_values(df) == SortFrom(<<>>, df)

(* df.drop_duplicates(): the first of each group of equal rows is kept *)
RECURSIVE DedupFrom(_, _)
DedupFrom(kept, rest) ==
    IF Len(rest) = 0 THEN kept
    ELSE DedupFrom(IF Head(rest) \in Range(kept) THEN kept
                   ELSE Append(kept, Head(rest)),
                   Tail(rest))

(* Variant of drop_duplicates: every row is kept *)
drop_duplicates_skipped(df) == df

drop_duplicates(df) == DedupFrom(<<>>, df)

(* Lines 91-97 *)
Finish(rs) ==
    IF Len(rs) # 0 THEN drop_duplicates(sort_values(rs)) ELSE <<>>

(* Lines 63-68: the document has the shape the function goes on with *)
ShapeOk(d) ==
    /\ d.type = "dict"
    /\ "links" \in DOMAIN d.items
    /\ d.items["links"].type = "list"

LinksOf(d) == d.items["links"].items

(* Variant of Caught: only except yaml.YAMLError *)
CaughtYamlOnly(e) == e = "YAMLError"

(* Lines 99-102: except yaml.YAMLError / except Exception *)
Caught(e) == e \in {"YAMLError", "KeyError", "AttributeError", "TypeError"}

(* The orders in which iterating a set may yield its elements *)
Orders(S) ==
    { f \in [1..Cardinality(S) -> S] :
        \A i, j \in 1..Cardinality(S) : i # j => f[i] # f[j] }

(* The try block, lines 62-97, for the orders ro and lo in which the sets  *)
(* root_nodes and leaf_nodes are iterated                                  *)
TryBlock(d, ro, lo) ==
    IF d.type = "unparsable"
    THEN [rows |-> <<>>, exc |-> "YAMLError", df |-> <<>>]
    ELSE IF ~ShapeOk(d)
    THEN [rows |-> <<>>, exc |-> "none", df |-> <<>>]
    ELSE LET st == RootLoop(build_adjacency_list(LinksOf(d)), LinksOf(d),
                            ro, lo, [rows |-> <<>>, exc |-> "none"])
         IN  IF st.exc # "none"
             THEN [rows |-> <<>>, exc |-> st.exc, df |-> <<>>]
             ELSE [rows |-> st.rows, exc |-> "none", df |-> Finish(st.rows)]

OtherDocs ==
    { Unparsable, Scalar, DictDoc([other |-> Scalar]),
      DictDoc([links |-> Scalar]) }

(* The state before a call of process_yaml_to_organized_data *)
BeforeCall ==
    /\ pc = "call"
    /\ root_nodes = {}
    /\ leaf_nodes = {}
    /\ rows = <<>>
    /\ exc = "none"
    /\ table = <<>>
    /\ raised = FALSE
    /\ adj_list = <<>>
    /\ start = EmptyId
    /\ end = EmptyId
    /\ call = InitCall(EmptyId)

(* Documents whose edge records all have a source and a target *)
Init ==
    /\ \/ doc \in OtherDocs
       \/ \E n \in 0..MaxLinks : \E l \in [1..n -> WellFormedLinks] :
            doc = DictDoc([links |-> ListOf(l)])
    /\ BeforeCall

(* Documents with odd edge records *)
InitOdd ==
    /\ \/ doc \in OtherDocs
       \/ \E n \in 0..MaxLinks : \E l \in [1..n -> OddLinks] :
            doc = DictDoc([links |-> ListOf(l)])
    /\ BeforeCall

(* A call on a document of the expected shape *)
Process ==
    /\ pc = "call"
    /\ ShapeOk(doc)
    /\ root_nodes' = find_root_nodes(LinksOf(doc))
    /\ leaf_nodes' = find_leaf_nodes(LinksOf(doc))
    /\ \E ro \in Orders(root_nodes'), lo \in Orders(leaf_nodes') :
         LET out == TryBlock(doc, ro, lo)
         IN  /\ rows' = out.rows
             /\ exc' = out.exc
             /\ table' = out.df
             /\ raised' = (out.exc # "none" /\ ~Caught(out.exc))
    /\ pc' = "done"
    /\ adj_list' = build_adjacency_list(LinksOf(doc))
    /\ UNCHANGED <<doc, start, end, call>>

(* A call on a document that cannot be parsed or has another shape *)
Reject ==
    /\ pc = "call"
    /\ ~ShapeOk(doc)
    /\ LET out == TryBlock(doc, <<>>, <<>>)
       IN  /\ rows' = out.rows
           /\ exc' = out.exc
           /\ table' = out.df
           /\ raised' = (out.exc # "none" /\ ~Caught(out.exc))
    /\ pc' = "done"
    /\ UNCHANGED <<doc, root_nodes, leaf_nodes, adj_list, start, end, call>>

Next == Process \/ Reject

Spec == Init /\ [][Next]_vars

SpecOdd == InitOdd /\ [][Next]_vars

---------------------------------------------------------------------------
(* Properties of get_all_paths_with_purposes                               *)

Finished == call.ret # "running"

(* The targets of the edges the adjacency mapping holds for a node *)
TargetsFrom(adj, n) ==
    { OutEdges(adj, n)[i].target : i \in DOMAIN OutEdges(adj, n) }

AllTargets(adj) == UNION { TargetsFrom(adj, n) : n \in DOMAIN adj }

NoRepeat(p) == \A i, j \in DOMAIN p : i # j => p[i] # p[j]

(* A simple path of the graph from s to e, said without the traversal *)
IsSimplePath(adj, p, s, e) ==
    /\ Len(p) >= 1
    /\ p[1] = s
    /\ p[Len(p)] = e
    /\ NoRepeat(p)
    /\ \A i \in 1..Len(p) - 1 : p[i] # e
    /\ \A i \in 1..Len(p) - 1 : p[i + 1] \in TargetsFrom(adj, p[i])

SimplePaths(adj, s, e) ==
    { p \in UNION { [1..n -> Nodes] : n \in 1..MaxNode } :
        IsSimplePath(adj, p, s, e) }

ReturnedPaths == { call.all_paths[i].path : i \in DOMAIN call.all_paths }

(* C1: for start # end the returned list holds exactly the simple paths    *)
(* from start to end: each begins with start, ends with end, repeats no    *)
(* node, holds end only last, follows edges; and each such path is there.  *)
C1_ExactlySimplePaths ==
    (Finished /\ start # end) =>
        /\ call.ret = "list"
        /\ ReturnedPaths = SimplePaths(adj_list, start, end)

(* A call that returned a path over two edges *)
C1_Witness ==
    /\ Finished
    /\ start # end
    /\ call.ret = "list"
    /\ \E p \in ReturnedPaths : Len(p) = 3

(* The purposes items of the edges a recorded path was built by, in order *)
RECURSIVE ItemsAlong(_, _, _)
ItemsAlong(adj, entry, i) ==
    IF i > Len(entry.edges) THEN <<>>
    ELSE OutEdges(adj, entry.path[i])[entry.edges[i]].purposes.items
         \o ItemsAlong(adj, entry, i + 1)

(* The entries of category c among items, concatenated in order *)
RECURSIVE EntriesOf(_, _)
EntriesOf(items, c) ==
    IF Len(items) = 0 THEN <<>>
    ELSE (IF Head(items).cat = c THEN Head(items).entries ELSE <<>>)
         \o EntriesOf(Tail(items), c)

(* C2: when the call returns, the purposes mapping of every recorded path  *)
(* holds, per category, exactly the entries of the edges of that path in   *)
(* traversal order, and nothing from an edge of another branch or path.    *)
C2_PerBranchPurposes ==
    Finished =>
        \A i \in DOMAIN call.all_paths :
            LET entry == call.all_paths[i]
                held  == PurposesOf(call, entry)
                items == ItemsAlong(adj_list, entry, 1)
            IN  /\ { held[j].cat : j \in DOMAIN held }
                     = { items[j].cat : j \in DOMAIN items }
                /\ \A j \in DOMAIN held :
                     held[j].entries = EntriesOf(items, held[j].cat)

(* C7 as stated: an empty list whenever start # end and start or end is    *)
(* not a key of the adjacency mapping, and whenever no path exists.        *)
C7_EmptyWhenNotAKey ==
    ( /\ Finished
      /\ start # end
      /\ \/ start \notin DOMAIN adj_list
         \/ end \notin DOMAIN adj_list
         \/ SimplePaths(adj_list, start, end) = {} )
    => (call.ret = "list" /\ call.all_paths = <<>>)

(* C7, amended: an empty list whenever start # end and start is not a key  *)
(* of the adjacency mapping or end is the target of none of its edges,     *)
(* and whenever no path from start to end exists.                          *)
C7_EmptyWhenUnreachable ==
    ( /\ Finished
      /\ start # end
      /\ \/ start \notin DOMAIN adj_list
         \/ end \notin AllTargets(adj_list)
         \/ SimplePaths(adj_list, start, end) = {} )
    => (call.ret = "list" /\ call.all_paths = <<>>)

(* A call that went through the edges of start and found no way to end *)
C7_Witness ==
    /\ Finished
    /\ start # end
    /\ start \in DOMAIN adj_list
    /\ end \notin AllTargets(adj_list)
    /\ call.ret = "list"
    /\ call.all_paths = <<>>

(* C8: called with start = end, the result is exactly one entry, the path  *)
(* [start] with an empty purposes mapping.                                 *)
C8_TrivialPathReturned ==
    (Finished /\ start = end) =>
        /\ call.ret = "list"
        /\ Len(call.all_paths) = 1
        /\ call.all_paths[1].path = <<start>>
        /\ call.all_paths[1].keys = <<>>

(* The nodes of the graph the call runs on *)
GraphNodes == DOMAIN adj_list \cup AllTargets(adj_list) \cup {start}

(* C9: the traversal terminates on every finite graph, cycles and          *)
(* self-loops included: the path of the running invocations never repeats  *)
(* a node, so the recursion is never deeper than the number of nodes.      *)
C9_Terminates ==
    /\ [](/\ NoRepeat(PathOf(call))
          /\ Len(call.stack) <= Cardinality(GraphNodes))
    /\ <>Finished

(* A finished call on a graph with a cycle through start whose back edge   *)
(* the loop came to                                                        *)
C9_Witness ==
    /\ Finished
    /\ start # end
    /\ \E b \in Nodes \ {start, end} :
         /\ b \in TargetsFrom(adj_list, start)
         /\ start \in TargetsFrom(adj_list, b)

---------------------------------------------------------------------------
(* Properties of process_yaml_to_organized_data                            *)

Returned == pc = "done"

(* The rows emitted for one (root, leaf), in the order they were emitted *)
PairRows(root, leaf) ==
    LET OfPair(r) == r.collector = root /\ r.data_type = leaf
    IN  SelectSeq(rows, OfPair)

(* The positions of the edge records from exactly root to exactly leaf *)
DirectLinks(links, root, leaf) ==
    { i \in DOMAIN links :
        /\ Get(links[i], "source", EmptyId) = root
        /\ Get(links[i], "target", EmptyId) = leaf }

FoundPaths(root, leaf) ==
    get_all_paths_with_purposes(adj_list, root, leaf).all_paths

(* C3: a row with collector root and data_type leaf is emitted only when   *)
(* the edge list has an edge from exactly root to exactly leaf; there is   *)
(* one row per (found path, such edge) and its text is the newline-join of *)
(* that edge's text lines; without such an edge the pair gets no row,      *)
(* whatever paths were found.                                              *)
C3_RowsPerDirectEdge ==
    (Returned /\ ShapeOk(doc)) =>
        /\ \A i \in DOMAIN rows :
             /\ rows[i].collector \in root_nodes
             /\ rows[i].data_type \in leaf_nodes
             /\ \E j \in DirectLinks(LinksOf(doc), rows[i].collector,
                                     rows[i].data_type) :
                  rows[i].text = Join(Get(LinksOf(doc)[j], "text", <<>>), "\n")
        /\ \A root \in root_nodes, leaf \in leaf_nodes :
             /\ Len(PairRows(root, leaf)) =
                  Len(FoundPaths(root, leaf))
                  * Cardinality(DirectLinks(LinksOf(doc), root, leaf))
             /\ \A j \in DirectLinks(LinksOf(doc), root, leaf) :
                  FoundPaths(root, leaf) # <<>> =>
                    \E i \in DOMAIN rows :
                      /\ rows[i].collector = root
                      /\ rows[i].data_type = leaf
                      /\ rows[i].text =
                           Join(Get(LinksOf(doc)[j], "text", <<>>), "\n")
        /\ Range(table) = Range(rows)

(* A chain: a path over two edges was found from a root to a leaf, no      *)
(* edge joins them directly, and the table is empty.                       *)
C3_Witness ==
    /\ Returned
    /\ ShapeOk(doc)
    /\ exc = "none"
    /\ \E root \in root_nodes, leaf \in leaf_nodes :
         /\ \E i \in DOMAIN FoundPaths(root, leaf) :
              Len(FoundPaths(root, leaf)[i].path) = 3
         /\ DirectLinks(LinksOf(doc), root, leaf) = {}
    /\ table = <<>>

(* C5: the returned table is sorted ascending by (data_type, collector)    *)
(* and holds no two rows equal on all four fields; equal rows of several   *)
(* paths collapse to one.                                                  *)
C5_SortedNoDuplicates ==
    Returned =>
        /\ \A i, j \in DOMAIN table : i < j => KeyLE(table[i], table[j])
        /\ \A i, j \in DOMAIN table : i # j => table[i] # table[j]
        /\ Range(table) = Range(rows)

(* Several paths gave equal rows, which the table holds once *)
C5_Witness ==
    /\ Returned
    /\ Len(table) >= 1
    /\ Len(rows) > Len(table)

(* The elements of a set of nodes in ascending order *)
Ascending(S) ==
    CHOOSE f \in Orders(S) : \A i, j \in DOMAIN f : i < j => f[i] < f[j]

(* C10: the returned table does not depend on the order in which the root  *)
(* and leaf sets are iterated: whatever the order of the call, the table   *)
(* is the one the ascending order gives, row for row.                      *)
C10_OrderIndependent ==
    (Returned /\ ShapeOk(doc)) =>
        LET ref == TryBlock(doc, Ascending(root_nodes), Ascending(leaf_nodes))
        IN  table = ref.df /\ exc = ref.exc

(* A call that emitted its rows in another order than the ascending one *)
C10_Witness ==
    /\ Returned
    /\ ShapeOk(doc)
    /\ Len(table) >= 2
    /\ rows # TryBlock(doc, Ascending(root_nodes), Ascending(leaf_nodes)).rows

(* The source and target values that are not the empty identifier *)
NonEmptySources(links) == SourcesOf(links) \ {EmptyId}

NonEmptyTargets(links) == TargetsOf(links) \ {EmptyId}

(* C4: the roots are the non-empty sources minus the non-empty targets,    *)
(* the leaves the non-empty targets minus the non-empty sources; the       *)
(* empty identifier is never a root or a leaf.                             *)
C4_NonEmptyRootsAndLeaves ==
    (Returned /\ ShapeOk(doc)) =>
        /\ root_nodes = NonEmptySources(LinksOf(doc))
                            \ NonEmptyTargets(LinksOf(doc))
        /\ leaf_nodes = NonEmptyTargets(LinksOf(doc))
                            \ NonEmptySources(LinksOf(doc))
        /\ EmptyId \notin root_nodes \cup leaf_nodes

(* An edge record without a source or target key, or with purposes that    *)
(* is no mapping                                                           *)
OddRecord(link) ==
    \/ "source" \notin DOMAIN link
    \/ "target" \notin DOMAIN link
    \/ Get(link, "purposes", Dict(<<>>)).type # "dict"

(* C6 as stated: no exception leaves the call, and the table is empty for  *)
(* a document of another shape, for any error, and for a document with an  *)
(* edge record that lacks source or target or has a non-mapping purposes.  *)
C6_EmptyOnAnyOddRecord ==
    Returned =>
        /\ ~raised
        /\ (~ShapeOk(doc) \/ exc # "none") => table = <<>>
        /\ (ShapeOk(doc) /\ \E i \in DOMAIN LinksOf(doc) :
                               OddRecord(LinksOf(doc)[i]))
             => table = <<>>

(* C6, amended: no exception leaves the call; the table is empty for a     *)
(* document of another shape and whenever an exception is raised inside    *)
(* (a missing key that line 82 reads, a non-mapping purposes the traversal *)
(* reaches); edge records that only lack purposes or text raise nothing.   *)
C6_EmptyOnEveryError ==
    Returned =>
        /\ ~raised
        /\ (~ShapeOk(doc) \/ exc # "none") => table = <<>>
        /\ (ShapeOk(doc) /\ \A i \in DOMAIN LinksOf(doc) :
                               ~OddRecord(LinksOf(doc)[i]))
             => exc = "none"

(* A call in which line 82 read a missing key: the KeyError was caught     *)
(* and the table is empty.                                                 *)
C6_Witness ==
    /\ Returned
    /\ ShapeOk(doc)
    /\ exc = "KeyError"
    /\ ~raised
    /\ table = <<>>

=============================================================================
